---- MODULE Spec2Model ----
(***************************************************************************)
(* Model of search_dependencies.py: the dependency specifier parser, the   *)
(* paginated query driver with its result normalizer, and main's           *)
(* orchestration (preconditions, token, searches, export, summary).        *)
(* Python strings that the program splits are sequences of one-character   *)
(* strings; opaque strings (cursors, field values) are TLA+ strings.       *)
(***************************************************************************)
EXTENDS Integers, Sequences, FiniteSets, TLC

\* ------------------------------------------------------------------ bounds
MaxStrLen == 7

MaxPages == 3

\* ------------------------------------------------------- string primitives
Alphabet == {"a", ":", "/", "@"}

EcoSep == <<":", "/", "/">>

VerSep == <<"@">>

Comma == <<",">>

Space == " "

Min(S) == CHOOSE x \in S : \A y \in S : x <= y

Max(S) == CHOOSE x \in S : \A y \in S : x >= y

\* positions at which sub occurs in s
Occurrences(s, sub) ==
  {i \in 1..(Len(s) - Len(sub) + 1) : SubSeq(s, i, i + Len(sub) - 1) = sub}

\* Python: sub in s
Contains(s, sub) == Occurrences(s, sub) # {}

\* SplitFirst with a fault: the split is made at the last occurrence
SplitFirst_AtLast(s, sep) ==
  LET i == Max(Occurrences(s, sep))
  IN  <<SubSeq(s, 1, i - 1), SubSeq(s, i + Len(sep), Len(s))>>

\* Python: s.split(sep, 1), for s that contains sep
SplitFirst(s, sep) ==
  LET i == Min(Occurrences(s, sep))
  IN  <<SubSeq(s, 1, i - 1), SubSeq(s, i + Len(sep), Len(s))>>

\* SplitLast with a fault: the split is made at the first occurrence
SplitLast_AtFirst(s, sep) ==
  LET i == Min(Occurrences(s, sep))
  IN  <<SubSeq(s, 1, i - 1), SubSeq(s, i + Len(sep), Len(s))>>

\* Python: s.rsplit(sep, 1), for s that contains sep
SplitLast(s, sep) ==
  LET i == Max(Occurrences(s, sep))
  IN  <<SubSeq(s, 1, i - 1), SubSeq(s, i + Len(sep), Len(s))>>

\* Python: s.split(',')
RECURSIVE SplitAll(_, _)
SplitAll(s, sep) ==
  IF ~Contains(s, sep) THEN <<s>>
  ELSE LET p == SplitFirst(s, sep) IN <<p[1]>> \o SplitAll(p[2], sep)

\* Python: s.strip()
RECURSIVE Strip(_)
Strip(s) ==
  IF s = <<>> THEN s
  ELSE IF s[1] = Space THEN Strip(Tail(s))
  ELSE IF s[Len(s)] = Space THEN Strip(SubSeq(s, 1, Len(s) - 1))
  ELSE s

\* ---------------------------------------------------------- parse_dependency
\* the None that parse_dependency returns from its except branch
ParseFailure ==
  [ok |-> FALSE, ecosystem |-> <<>>, dependency |-> <<>>, version |-> <<>>,
   full_name |-> <<>>]

parse_dependency(dependency_str) ==
  IF ~Contains(dependency_str, EcoSep) THEN ParseFailure
  ELSE LET er == SplitFirst(dependency_str, EcoSep)
           ecosystem == er[1]
           rest == er[2]
       IN  IF ~Contains(rest, VerSep) THEN ParseFailure
           ELSE LET dv == SplitLast(rest, VerSep)
                IN  [ok |-> TRUE, ecosystem |-> ecosystem, dependency |-> dv[1],
                     version |-> dv[2], full_name |-> ecosystem \o EcoSep \o dv[1]]

\* ------------------------------------------------- JSON values of the server
\* A JSON object is a record that has every key the program reads; a key the
\* server left out holds Absent, a JSON null holds PyNone.  A nested block
\* carries a tag t: "absent" (key missing), "null" (JSON null), "dict".
Absent == "<absent>"

PyNone == "<None>"

EmptyDepData ==
  [t |-> "dict", package_name |-> Absent, resolved_version |-> Absent, scope |-> Absent]

EmptyImporter ==
  [t |-> "dict", project_uuid |-> Absent, package_version_name |-> Absent]

EmptySpec ==
  [t |-> "dict", dependency_data |-> [EmptyDepData EXCEPT !.t = "absent"],
   importer_data |-> [EmptyImporter EXCEPT !.t = "absent"]]

EmptyTenant == [t |-> "dict", namespace |-> Absent]

EmptyObjects == [t |-> "absent", items |-> <<>>]

EmptyList == [t |-> "dict", objects |-> EmptyObjects]

EmptyProjectRef == [t |-> "dict", list |-> [EmptyList EXCEPT !.t = "absent"]]

EmptyRefs == [t |-> "dict", Project |-> [EmptyProjectRef EXCEPT !.t = "absent"]]

EmptyMeta == [t |-> "dict", references |-> [EmptyRefs EXCEPT !.t = "absent"]]

EmptyProjectMeta == [t |-> "dict", name |-> Absent]

\* Python: d.get(key, {}) for a block-valued key
DictGet(block, default) == IF block.t = "absent" THEN default ELSE block

\* Python: d.get(key, default) for a string-valued key
StrGet(value, default) == IF value = Absent THEN default ELSE value

\* calling .get on None raises AttributeError
IsNone(block) == block.t = "null"

\* the keys of a usage record as search_dependency_usage builds it
RecordKeys ==
  {"namespace", "project_uuid", "project_name", "dependency_name",
   "dependency_version", "dependency_scope", "parent_package_version_name"}

\* body of the loop over objects: [raised, result]
NormalizeObj(obj, initial_namespace) ==
  LET spec1 == DictGet(obj.spec, EmptySpec)
      dep_data == DictGet(spec1.dependency_data, EmptyDepData)
      importer_data == DictGet(spec1.importer_data, EmptyImporter)
      tenant_meta == IF obj.tenant_meta.t = "dict" THEN obj.tenant_meta ELSE EmptyTenant
      namespace == StrGet(tenant_meta.namespace, initial_namespace)
      meta1 == DictGet(obj.meta, EmptyMeta)
      meta_refs == DictGet(meta1.references, EmptyRefs)
      has_project == meta_refs.Project.t # "absent"
      project_ref == meta_refs.Project
      plist == DictGet(project_ref.list, EmptyList)
      project_objects == plist.objects
      truthy == project_objects.t = "dict" /\ project_objects.items # <<>>
      project_obj == project_objects.items[1]
      pmeta == DictGet(project_obj.meta, EmptyProjectMeta)
      project_name == IF has_project /\ truthy THEN StrGet(pmeta.name, "") ELSE ""
      raised ==
        \/ IsNone(spec1)                                  \* None.get('dependency_data')
        \/ IsNone(meta1)                                  \* None.get('references')
        \/ IsNone(meta_refs)                              \* 'Project' in None
        \/ has_project /\ IsNone(project_ref)             \* None.get('list')
        \/ has_project /\ IsNone(plist)                   \* None.get('objects')
        \/ has_project /\ truthy /\ IsNone(project_obj)   \* None.get('meta')
        \/ has_project /\ truthy /\ IsNone(pmeta)         \* None.get('name')
        \/ IsNone(importer_data)                          \* None.get('project_uuid')
        \/ IsNone(dep_data)                               \* None.get('package_name')
  IN  [raised |-> raised,
       result |->
         [namespace |-> namespace,
          project_uuid |-> StrGet(importer_data.project_uuid, ""),
          project_name |-> project_name,
          dependency_name |-> StrGet(dep_data.package_name, ""),
          dependency_version |-> StrGet(dep_data.resolved_version, ""),
          dependency_scope |-> StrGet(dep_data.scope, ""),
          parent_package_version_name |-> StrGet(importer_data.package_version_name, "")]]

\* Python: for obj in objects: ... all_results.append(result)
RECURSIVE NormalizeAll(_, _)
NormalizeAll(objects, initial_namespace) ==
  IF objects = <<>> THEN [raised |-> FALSE, results |-> <<>>]
  ELSE LET first == NormalizeObj(Head(objects), initial_namespace)
           others == NormalizeAll(Tail(objects), initial_namespace)
       IN  IF first.raised \/ others.raised
           THEN [raised |-> TRUE, results |-> <<>>]
           ELSE [raised |-> FALSE, results |-> <<first.result>> \o others.results]

\* -------------------------------------------------- the QUERY API response
EmptyResponse == [t |-> "dict", next_page_token |-> Absent]

EmptyRespList ==
  [t |-> "dict", objects |-> EmptyObjects,
   response |-> [EmptyResponse EXCEPT !.t = "absent"]]

EmptyQueryResponse == [t |-> "dict", list |-> [EmptyRespList EXCEPT !.t = "absent"]]

EmptyDataSpec ==
  [t |-> "dict", query_response |-> [EmptyQueryResponse EXCEPT !.t = "absent"]]

\* a response body {spec: {query_response: {list: {objects, response: {next_page_token}}}}}
MkBody(items, token) ==
  [spec |->
    [t |-> "dict", query_response |->
      [t |-> "dict", list |->
        [t |-> "dict", objects |-> [t |-> "dict", items |-> items],
         response |-> [t |-> "dict", next_page_token |-> token]]]]]

\* Python truthiness of an optional string
Truthy(value) == value \notin {Absent, PyNone, ""}

\* one successful response, from response.json() to the test of next_page_token:
\* [raised, results, next_page_token]
ProcessPage(data, initial_namespace) ==
  LET spec1 == DictGet(data.spec, EmptyDataSpec)
      query_response == DictGet(spec1.query_response, EmptyQueryResponse)
      list1 == DictGet(query_response.list, EmptyRespList)
      objects == IF list1.objects.t = "absent" THEN <<>> ELSE list1.objects.items
      normalized == NormalizeAll(objects, initial_namespace)
      response1 == DictGet(list1.response, EmptyResponse)
      token == StrGet(response1.next_page_token, PyNone)
      raised ==
        \/ IsNone(spec1)                 \* None.get('query_response')
        \/ IsNone(query_response)        \* None.get('list')
        \/ IsNone(list1)                 \* None.get('objects')
        \/ IsNone(list1.objects)         \* len(None)
        \/ normalized.raised
        \/ IsNone(response1)             \* None.get('next_page_token')
  IN  [raised |-> raised, results |-> normalized.results, next_page_token |-> token]

\* ------------------------------------------------------------------ inputs
\* specifier tokens of the command line
DepA == <<"n", ":", "/", "/", "a", "@", "1">>

DepB == <<"n", ":", "/", "/", "b", "@", "2">>

DepBad == <<"n", "a", "@", "1">>

CommaSpace == <<",", " ">>

\* values of --dependencies
ArgPool ==
  { DepA,
    DepBad,
    DepBad \o Comma \o DepBad,
    DepBad \o CommaSpace \o DepA,
    DepA \o CommaSpace \o DepB,
    DepA \o Comma \o DepA,
    DepA \o CommaSpace \o DepBad \o Comma \o DepB }

\* environments: API_KEY, API_SECRET, ENDOR_NAMESPACE (PyNone: not set)
EnvPool ==
  { [api_key |-> "key", api_secret |-> "secret", initial_namespace |-> "tenant"],
    [api_key |-> PyNone, api_secret |-> "secret", initial_namespace |-> "tenant"],
    [api_key |-> "key", api_secret |-> "", initial_namespace |-> "tenant"],
    [api_key |-> "key", api_secret |-> "secret", initial_namespace |-> PyNone] }

\* what the auth endpoint may answer in the token field
TokenPool == {Absent, PyNone, "", "bearer"}

\* raw objects of the server
ObjFull ==
  [spec |->
     [t |-> "dict",
      dependency_data |->
        [t |-> "dict", package_name |-> "pkg", resolved_version |-> "1", scope |-> "normal"],
      importer_data |->
        [t |-> "dict", project_uuid |-> "u1", package_version_name |-> "parent"]],
   tenant_meta |-> [t |-> "dict", namespace |-> "child"],
   meta |->
     [t |-> "dict", references |->
       [t |-> "dict", Project |->
         [t |-> "dict", list |->
           [t |-> "dict", objects |->
             [t |-> "dict", items |->
               << [t |-> "dict", meta |-> [t |-> "dict", name |-> "proj"]],
                  [t |-> "dict", meta |-> [t |-> "dict", name |-> "other"]] >>]]]]]]

\* no tenant_meta, an empty project list, fields left out, a null scope
ObjSparse ==
  [spec |->
     [t |-> "dict",
      dependency_data |->
        [t |-> "dict", package_name |-> "pkg", resolved_version |-> Absent, scope |-> PyNone],
      importer_data |->
        [t |-> "dict", project_uuid |-> "u2", package_version_name |-> Absent]],
   tenant_meta |-> [t |-> "null", namespace |-> Absent],
   meta |->
     [t |-> "dict", references |->
       [t |-> "dict", Project |->
         [t |-> "dict", list |->
           [t |-> "dict", objects |-> [t |-> "dict", items |-> <<>>]]]]]]

\* the object {}
ObjEmpty ==
  [spec |-> [EmptySpec EXCEPT !.t = "absent"],
   tenant_meta |-> [EmptyTenant EXCEPT !.t = "absent"],
   meta |-> [EmptyMeta EXCEPT !.t = "absent"]]

\* "spec": null
ObjNullSpec == [ObjFull EXCEPT !.spec.t = "null"]

\* "importer_data": null
ObjNullImporter == [ObjSparse EXCEPT !.spec.importer_data.t = "null"]

\* "references": null
ObjNullRefs == [ObjFull EXCEPT !.meta.references.t = "null"]

\* successful responses of the query endpoint
ResponsePool ==
  { MkBody(<<ObjFull, ObjSparse>>, "c1"),
    MkBody(<<ObjSparse>>, "c2"),
    MkBody(<<ObjFull>>, Absent),
    MkBody(<<ObjEmpty>>, PyNone),
    MkBody(<<>>, ""),
    [spec |-> [EmptyDataSpec EXCEPT !.t = "absent"]],
    MkBody(<<ObjFull, ObjNullSpec>>, "c1"),
    MkBody(<<ObjNullImporter>>, Absent),
    MkBody(<<ObjNullRefs>>, "c2") }

\* ------------------------------------------------------------------- state
VARIABLES
  pc,                 \* position in main
  exit_code,          \* process exit status, -1 while running
  args,               \* args.dependencies
  environ,            \* os.environ
  dependency_strings, \* main: dependency_strings
  dep_idx,            \* main: position of the parse loop
  dependencies,       \* main: dependencies
  env,                \* main: env
  token,              \* main: token
  auth_requests,      \* POSTs to /auth/api-key
  query_requests,     \* POSTs to /namespaces/{ns}/queries
  search_idx,         \* main: position of the search loop
  query_payload,      \* search_dependency_usage: query_payload
  results,            \* search_dependency_usage: all_results
  next_page_token,    \* search_dependency_usage: next_page_token
  page_num,           \* search_dependency_usage: page_num
  requests,           \* bodies posted by the current search, in order
  responses,          \* answers to the current search, in order
  searches,           \* finished searches: label, outcome, records returned
  all_results,        \* main: all_results, in insertion order
  flat_results,       \* main: flat_results
  json_file,          \* the JSON output file
  csv_file,           \* the CSV output file
  write_error,        \* a file write raised (and was reported)
  total_usages        \* main: total_usages as printed, -1 before

vars ==
  << pc, exit_code, args, environ, dependency_strings, dep_idx, dependencies, env,
     token, auth_requests, query_requests, search_idx, query_payload, results,
     next_page_token, page_num, requests, responses, searches, all_results,
     flat_results, json_file, csv_file, write_error, total_usages >>

parseVars == <<dependency_strings, dep_idx, dependencies>>

authVars == <<env, token, auth_requests>>

searchVars ==
  <<search_idx, query_payload, results, next_page_token, page_num, requests,
    responses, query_requests, searches, all_results>>

exportVars == <<flat_results, json_file, csv_file, write_error, total_usages>>

NoPayload ==
  [name |-> <<>>, filter |-> <<>>, mask |-> "", traverse |-> FALSE,
   references_mask |-> "", page_token |-> Absent]

NoEnv == [api_key |-> PyNone, api_secret |-> PyNone, initial_namespace |-> PyNone]

NoFile == [written |-> FALSE, content |-> <<>>]

InitRest ==
  /\ pc = "main"
  /\ exit_code = -1
  /\ dependency_strings = <<>>
  /\ dep_idx = 1
  /\ dependencies = <<>>
  /\ env = NoEnv
  /\ token = PyNone
  /\ auth_requests = 0
  /\ query_requests = 0
  /\ search_idx = 1
  /\ query_payload = NoPayload
  /\ results = <<>>
  /\ next_page_token = PyNone
  /\ page_num = 1
  /\ requests = <<>>
  /\ responses = <<>>
  /\ searches = <<>>
  /\ all_results = <<>>
  /\ flat_results = <<>>
  /\ json_file = NoFile
  /\ csv_file = NoFile
  /\ write_error = FALSE
  /\ total_usages = -1

Init ==
  /\ args \in ArgPool
  /\ environ \in EnvPool
  /\ InitRest

\* ------------------------------------------------------- main: parse phase
\* dependency_strings = [dep.strip() for dep in args.dependencies.split(',')]
SplitArgs ==
  /\ pc = "main"
  /\ dependency_strings' =
       [i \in 1..Len(SplitAll(args, Comma)) |-> Strip(SplitAll(args, Comma)[i])]
  /\ dep_idx' = 1
  /\ dependencies' = <<>>
  /\ pc' = "parse"
  /\ UNCHANGED <<exit_code, args, environ, authVars, searchVars, exportVars>>

\* one pass of: for dep_str in dependency_strings
ParseToken ==
  /\ pc = "parse"
  /\ dep_idx <= Len(dependency_strings)
  /\ LET dep_info == parse_dependency(dependency_strings[dep_idx])
     IN  dependencies' =
           IF dep_info.ok THEN Append(dependencies, dep_info) ELSE dependencies
  /\ dep_idx' = dep_idx + 1
  /\ UNCHANGED <<pc, exit_code, args, environ, dependency_strings, authVars,
                 searchVars, exportVars>>

\* if not dependencies: sys.exit(1)
CheckDependencies ==
  /\ pc = "parse"
  /\ dep_idx > Len(dependency_strings)
  /\ IF dependencies = <<>>
     THEN pc' = "exit" /\ exit_code' = 1
     ELSE pc' = "env" /\ exit_code' = exit_code
  /\ UNCHANGED <<args, environ, parseVars, authVars, searchVars, exportVars>>

\* ---------------------------------------------- get_env_values, get_token
\* Missing with a fault: an empty value counts as set
Missing_OnlyUnset(value) == value \in {Absent, PyNone}

\* Python: not value, for an environment variable
Missing(value) == ~Truthy(value)

GetEnvValues ==
  /\ pc = "env"
  /\ IF \/ Missing(environ.api_key)
        \/ Missing(environ.api_secret)
        \/ Missing(environ.initial_namespace)
     THEN pc' = "exit" /\ exit_code' = 1 /\ env' = env
     ELSE pc' = "token" /\ exit_code' = exit_code /\ env' = environ
  /\ UNCHANGED <<args, environ, parseVars, token, auth_requests, searchVars, exportVars>>

\* get_token raises RequestException (transport error, 4xx/5xx): sys.exit(1)
GetTokenFails ==
  /\ pc = "token"
  /\ auth_requests' = auth_requests + 1
  /\ pc' = "exit"
  /\ exit_code' = 1
  /\ UNCHANGED <<args, environ, parseVars, env, token, searchVars, exportVars>>

\* token = response.json().get('token'); if not token: sys.exit(1)
GetToken ==
  /\ pc = "token"
  /\ auth_requests' = auth_requests + 1
  /\ \E answer \in TokenPool :
       /\ token' = StrGet(answer, PyNone)
       /\ IF Truthy(answer)
          THEN pc' = "search" /\ exit_code' = exit_code
          ELSE pc' = "exit" /\ exit_code' = 1
  /\ UNCHANGED <<args, environ, parseVars, env, searchVars, exportVars>>

\* ------------------------------------------------- search_dependency_usage
\* f"{dep_info['full_name']}@{dep_info['version']}"
Label(dep_info) == dep_info.full_name \o VerSep \o dep_info.version

\* query_payload as built before the loop
BuildPayload(dependency_info) ==
  [name |-> <<"Dependencies with Project Info: ", dependency_info.full_name>>,
   filter |->
     <<"context.type==CONTEXT_TYPE_MAIN and spec.dependency_data.package_name==",
       dependency_info.full_name,
       " and spec.dependency_data.resolved_version==",
       dependency_info.version>>,
   mask |-> "meta.name,spec.dependency_data,spec.importer_data",
   traverse |-> TRUE,
   references_mask |-> "uuid,meta.name",
   page_token |-> Absent]

\* main calls search_dependency_usage for the next dependency; the function
\* runs up to its loop
StartSearch ==
  /\ pc = "search"
  /\ search_idx <= Len(dependencies)
  /\ query_payload' = BuildPayload(dependencies[search_idx])
  /\ results' = <<>>
  /\ next_page_token' = PyNone
  /\ page_num' = 1
  /\ requests' = <<>>
  /\ responses' = <<>>
  /\ pc' = "loop"
  /\ UNCHANGED <<exit_code, args, environ, parseVars, authVars, search_idx,
                 query_requests, searches, all_results, exportVars>>

\* if next_page_token: query_payload[...]["page_token"] = next_page_token
AttachCursor(payload, cursor) ==
  IF Truthy(cursor) THEN [payload EXCEPT !.page_token = cursor] ELSE payload

FailedResponse == [ok |-> FALSE, data |-> MkBody(<<>>, Absent)]

\* one pass of the loop in which requests.post, raise_for_status or
\* response.json() raises RequestException (transport error, 4xx/5xx status,
\* undecodable body): nothing is appended, break
FetchFails ==
  /\ pc = "loop"
  /\ query_payload' = AttachCursor(query_payload, next_page_token)
  /\ requests' = Append(requests, query_payload')
  /\ query_requests' = query_requests + 1
  /\ responses' = Append(responses, FailedResponse)
  /\ pc' = "return"
  /\ UNCHANGED <<exit_code, args, environ, parseVars, authVars, search_idx, results,
                 next_page_token, page_num, searches, all_results, exportVars>>

\* Accumulate with a fault: the page goes in front of the records already held
Accumulate_Prepend(acc, page) == page \o acc

\* the records all_results holds after a page whose objects normalize to page
Accumulate(acc, page) == acc \o page

\* one pass of the loop with a 2xx response
FetchPage ==
  /\ pc = "loop"
  /\ query_payload' = AttachCursor(query_payload, next_page_token)
  /\ requests' = Append(requests, query_payload')
  /\ query_requests' = query_requests + 1
  /\ \E data \in ResponsePool :
       LET page == ProcessPage(data, env.initial_namespace)
       IN  /\ page_num < MaxPages \/ page.raised \/ ~Truthy(page.next_page_token)
           /\ responses' = Append(responses, [ok |-> TRUE, data |-> data])
           /\ IF page.raised
              THEN \* the error is not a RequestException: it leaves main
                   /\ pc' = "crashed"
                   /\ exit_code' = 1
                   /\ UNCHANGED <<results, next_page_token, page_num>>
              ELSE /\ results' = Accumulate(results, page.results)
                   /\ next_page_token' = page.next_page_token
                   /\ exit_code' = exit_code
                   /\ IF Truthy(page.next_page_token)
                      THEN pc' = "loop" /\ page_num' = page_num + 1
                      ELSE pc' = "return" /\ page_num' = page_num
  /\ UNCHANGED <<args, environ, parseVars, authVars, search_idx, searches,
                 all_results, exportVars>>

\* DictSet with a fault: a key already present keeps its value
DictSet_KeepFirst(d, key, value) ==
  IF \E i \in 1..Len(d) : d[i].key = key
  THEN d
  ELSE Append(d, [key |-> key, value |-> value])

\* Python: d[key] = value on an insertion-ordered dict
DictSet(d, key, value) ==
  IF \E i \in 1..Len(d) : d[i].key = key
  THEN [i \in 1..Len(d) |-> IF d[i].key = key THEN [key |-> key, value |-> value] ELSE d[i]]
  ELSE Append(d, [key |-> key, value |-> value])

\* return all_results; all_results[label] = results; display_results(...)
StoreResults ==
  /\ pc = "return"
  /\ all_results' = DictSet(all_results, Label(dependencies[search_idx]), results)
  /\ searches' =
       Append(searches,
              [label |-> Label(dependencies[search_idx]),
               failed |-> ~responses[Len(responses)].ok,
               returned |-> results])
  /\ search_idx' = search_idx + 1
  /\ pc' = IF search_idx + 1 > Len(dependencies) THEN "flatten" ELSE "search"
  /\ UNCHANGED <<exit_code, args, environ, parseVars, authVars, query_payload, results,
                 next_page_token, page_num, requests, responses, query_requests,
                 exportVars>>

\* --------------------------------------------------------- main: export
\* result['searched_dependency'] = dep_name, on the dict held by all_results
Annotate(result, dep_name) ==
  [k \in DOMAIN result \cup {"searched_dependency"} |->
     IF k = "searched_dependency" THEN dep_name ELSE result[k]]

AnnotateAll(entry) ==
  [i \in 1..Len(entry.value) |-> Annotate(entry.value[i], entry.key)]

RECURSIVE Concat(_)
Concat(lists) == IF lists = <<>> THEN <<>> ELSE Head(lists) \o Concat(Tail(lists))

\* the loop that fills flat_results; the dicts it tags are those of all_results
FlattenResults ==
  /\ pc = "flatten"
  /\ all_results' =
       [i \in 1..Len(all_results) |->
          [key |-> all_results[i].key, value |-> AnnotateAll(all_results[i])]]
  /\ flat_results' = Concat([i \in 1..Len(all_results) |-> AnnotateAll(all_results[i])])
  /\ pc' = "save_json"
  /\ UNCHANGED <<exit_code, args, environ, parseVars, authVars, search_idx,
                 query_payload, results, next_page_token, page_num, requests,
                 responses, query_requests, searches, json_file, csv_file,
                 write_error, total_usages>>

\* save_results_json(all_results, json_filename)
SaveResultsJson ==
  /\ pc = "save_json"
  /\ \E ok \in BOOLEAN :
       /\ json_file' = IF ok THEN [written |-> TRUE, content |-> all_results] ELSE json_file
       /\ write_error' = (write_error \/ ~ok)
  /\ pc' = "save_csv"
  /\ UNCHANGED <<exit_code, args, environ, parseVars, authVars, searchVars,
                 flat_results, csv_file, total_usages>>

\* the field names in sorted order
KeyOrder ==
  <<"dependency_name", "dependency_scope", "dependency_version", "namespace",
    "parent_package_version_name", "project_name", "project_uuid",
    "searched_dependency">>

\* fieldnames = sorted(union of the keys of all results)
FieldNames(rows) ==
  LET used(k) == \E i \in 1..Len(rows) : k \in DOMAIN rows[i]
  IN  SelectSeq(KeyOrder, used)

\* csv.DictWriter writes None as the empty string
CsvRow(result, fieldnames) ==
  [i \in 1..Len(fieldnames) |->
     LET k == fieldnames[i]
     IN  IF k \notin DOMAIN result THEN ""
         ELSE IF k = "searched_dependency" THEN result[k]
         ELSE IF result[k] = PyNone THEN "" ELSE result[k]]

\* whether save_results_csv opens the file at all
CsvWanted(rows) == rows # <<>>

\* save_results_csv(flat_results, csv_filename)
SaveResultsCsv ==
  /\ pc = "save_csv"
  /\ IF ~CsvWanted(flat_results)
     THEN UNCHANGED <<csv_file, write_error>>
     ELSE \E ok \in BOOLEAN :
            /\ csv_file' =
                 IF ok
                 THEN [written |-> TRUE,
                       content |->
                         <<FieldNames(flat_results)>> \o
                         [i \in 1..Len(flat_results) |->
                            CsvRow(flat_results[i], FieldNames(flat_results))]]
                 ELSE csv_file
            /\ write_error' = (write_error \/ ~ok)
  /\ pc' = "summary"
  /\ UNCHANGED <<exit_code, args, environ, parseVars, authVars, searchVars,
                 flat_results, json_file, total_usages>>

RECURSIVE SumLen(_)
SumLen(d) == IF d = <<>> THEN 0 ELSE Len(Head(d).value) + SumLen(Tail(d))

\* total_usages = sum(len(results) for results in all_results.values())
Summary ==
  /\ pc = "summary"
  /\ total_usages' = SumLen(all_results)
  /\ pc' = "exit"
  /\ exit_code' = 0
  /\ UNCHANGED <<args, environ, parseVars, authVars, searchVars, flat_results,
                 json_file, csv_file, write_error>>

\* ------------------------------------------------------------ specification
Next ==
  \/ SplitArgs
  \/ ParseToken
  \/ CheckDependencies
  \/ GetEnvValues
  \/ GetTokenFails
  \/ GetToken
  \/ StartSearch
  \/ FetchFails
  \/ FetchPage
  \/ StoreResults
  \/ FlattenResults
  \/ SaveResultsJson
  \/ SaveResultsCsv
  \/ Summary

Spec == Init /\ [][Next]_vars

\* ------------------------------------ the parser over all short specifiers
\* every string over Alphabet up to MaxStrLen
Strings == UNION {[1..n -> Alphabet] : n \in 0..MaxStrLen}

\* one arbitrary token, alone or followed by a well-formed one
InitParse ==
  /\ \E s \in Strings : \E suffix \in {<<>>, CommaSpace \o DepA} : args = s \o suffix
  /\ environ = [api_key |-> "key", api_secret |-> "secret", initial_namespace |-> "tenant"]
  /\ InitRest

NextParse ==
  \/ SplitArgs
  \/ ParseToken
  \/ CheckDependencies

SpecParse == InitParse /\ [][NextParse]_vars

\* the ways to read s as e + "://" + n + "@" + v with no "://" in e, no "@" in v
Decompositions(s) ==
  { d \in { <<SubSeq(s, 1, i - 1), SubSeq(s, i + 3, j - 1), SubSeq(s, j + 1, Len(s))>> :
              i \in 1..Len(s), j \in 1..Len(s) } :
      /\ s = d[1] \o EcoSep \o d[2] \o VerSep \o d[3]
      /\ ~Contains(d[1], EcoSep)
      /\ ~Contains(d[3], VerSep) }

\* s has no "://", or what follows its first "://" has no "@"
Malformed(s) ==
  \/ ~Contains(s, EcoSep)
  \/ ~Contains(SubSeq(s, Min(Occurrences(s, EcoSep)) + 3, Len(s)), VerSep)

WellFormed(s) == ~Malformed(s)

\* the tokens the parse loop has gone through
Processed == SubSeq(dependency_strings, 1, dep_idx - 1)

\* C7: parse_dependency(e + "://" + n + "@" + v), with no "://" in e and no "@"
\* in v, is [ecosystem e, dependency n, version v, full_name e + "://" + n]; a
\* token with no "://", or with no "@" after its first "://", yields the failure
\* value and no error, and main drops it and goes on: after any number of
\* tokens, dependencies holds the identifiers of the well-formed ones, in order.
C7_ParseContract ==
  pc # "main" =>
    /\ \A k \in 1..Len(Processed) :
         LET s == Processed[k]
         IN  /\ \A d \in Decompositions(s) :
                  parse_dependency(s) =
                    [ok |-> TRUE, ecosystem |-> d[1], dependency |-> d[2],
                     version |-> d[3], full_name |-> d[1] \o EcoSep \o d[2]]
             /\ Malformed(s) => parse_dependency(s) = ParseFailure
             /\ WellFormed(s) => Decompositions(s) # {}
    /\ LET kept == SelectSeq(Processed, WellFormed)
       IN  /\ Len(dependencies) = Len(kept)
           /\ \A k \in 1..Len(kept) :
                \A d \in Decompositions(kept[k]) :
                  dependencies[k] =
                    [ok |-> TRUE, ecosystem |-> d[1], dependency |-> d[2],
                     version |-> d[3], full_name |-> d[1] \o EcoSep \o d[2]]
    /\ pc \in {"parse", "env", "exit"}
    /\ pc = "exit" => dependencies = <<>> /\ exit_code = 1

\* a token with "://" but no "@" was dropped and the token after it was parsed
C7_Witness ==
  /\ pc = "env"
  /\ Len(dependency_strings) = 2
  /\ Contains(dependency_strings[1], EcoSep)
  /\ Malformed(dependency_strings[1])
  /\ dependencies = <<parse_dependency(DepA)>>
  /\ dependencies[1].dependency = <<"a">>
  /\ dependencies[1].version = <<"1">>

\* C10 as claimed: the dependency name of a parsed identifier has no "://"
C10_NameHasNoEcoSep ==
  \A k \in 1..Len(dependencies) : ~Contains(dependencies[k].dependency, EcoSep)

\* C10 amended: the ecosystem of a parsed identifier has no "://"; the name is
\* all that lies between the first "://" and the last "@" of the input
C10_EcosystemHasNoEcoSep ==
  \A k \in 1..Len(dependencies) :
    /\ ~Contains(dependencies[k].ecosystem, EcoSep)
    /\ dependencies[k].full_name =
         dependencies[k].ecosystem \o EcoSep \o dependencies[k].dependency

\* a parsed identifier whose name holds a second "://"
C10_Witness ==
  /\ Len(dependencies) >= 1
  /\ Contains(dependencies[1].dependency, EcoSep)
  /\ ~Contains(dependencies[1].ecosystem, EcoSep)

\* ------------------------------------------------ claims about the searches
\* the cursor a successful response carries
CursorOf(response) == ProcessPage(response.data, env.initial_namespace).next_page_token

\* the records built from the objects of the given responses, page after page
RECURSIVE RecordsOf(_)
RecordsOf(resps) ==
  IF resps = <<>> THEN <<>>
  ELSE ProcessPage(Head(resps).data, env.initial_namespace).results \o RecordsOf(Tail(resps))

\* the number of objects the given responses carry
RECURSIVE ObjectCount(_)
ObjectCount(resps) ==
  IF resps = <<>> THEN 0
  ELSE LET list1 == Head(resps).data.spec.query_response.list
       IN  (IF Head(resps).data.spec.t = "dict" /\ list1.objects.t = "dict"
            THEN Len(list1.objects.items) ELSE 0) + ObjectCount(Tail(resps))

SameQuery(p, q) ==
  /\ p.filter = q.filter
  /\ p.mask = q.mask
  /\ p.traverse = q.traverse
  /\ p.name = q.name
  /\ p.references_mask = q.references_mask

\* the search has left its loop
SearchOver == pc \notin {"loop"} /\ responses # <<>>

\* C1 as claimed: the first request has no page_token, request k carries the
\* cursor of response k-1 with the same filter, mask and traverse, and when
\* every request was answered successfully the search ends only on a response
\* that carries no cursor: N requests for N-1 pages with a cursor and one without
C1_PaginationProtocol ==
  /\ Len(requests) = Len(responses)
  /\ requests # <<>> => requests[1].page_token = Absent
  /\ \A k \in 2..Len(requests) :
       /\ responses[k - 1].ok
       /\ requests[k].page_token = CursorOf(responses[k - 1])
       /\ SameQuery(requests[k], requests[1])
  /\ (SearchOver /\ \A k \in 1..Len(responses) : responses[k].ok)
       => ~Truthy(CursorOf(responses[Len(responses)]))

\* C2: when the request for page k fails, the search makes no further request
\* and returns the records of pages 1..k-1, in page order then in-page order
C2_FailedPageEndsSearch ==
  \A k \in 1..Len(responses) :
    ~responses[k].ok =>
      /\ k = Len(responses)
      /\ Len(requests) = k
      /\ pc # "loop"
      /\ results = RecordsOf(SubSeq(responses, 1, k - 1))
      /\ pc # "return" =>
           /\ searches # <<>>
           /\ searches[Len(searches)].failed
           /\ searches[Len(searches)].returned = results

\* page 3 failed after two pages of two and one objects: three records returned
C2_Witness ==
  /\ pc = "return"
  /\ Len(responses) = 3
  /\ ~responses[3].ok
  /\ Len(requests) = 3
  /\ Len(results) = 3
  /\ results[1] # results[2]
  /\ results[2] = results[3]

\* some finished search ended on a transport or server error
SomeSearchFailed == \E i \in 1..Len(searches) : searches[i].failed

\* the value all_results holds under a label
ValueOf(d, key) == d[CHOOSE i \in 1..Len(d) : d[i].key = key].value

\* a record cut down to the seven keys it was built with
SevenFields(r) == [k \in RecordKeys |-> r[k]]

Built(records) == [i \in 1..Len(records) |-> SevenFields(records[i])]

\* C3 as claimed: after a search has ended on a transport or server error the
\* run is never aborted: the process does not end with code 1, the partial
\* records of the failed search are stored under its label when it returns,
\* and the run ends only after every dependency was searched and the export
\* step was reached
C3_SearchErrorNeverAborts ==
  SomeSearchFailed =>
    /\ exit_code # 1
    /\ pc # "crashed"
    /\ pc = "search" =>
         Built(ValueOf(all_results, searches[Len(searches)].label)) =
           searches[Len(searches)].returned
    /\ pc = "exit" =>
         /\ Len(searches) = Len(dependencies)
         /\ total_usages >= 0

\* C4 as claimed: a run that got its token, met no file write error and came
\* to its end has written both the JSON file and the CSV file, whatever the
\* number of usages the searches returned
C4_BothFilesProduced ==
  (pc = "exit" /\ exit_code = 0 /\ Truthy(token) /\ ~write_error) =>
    json_file.written /\ csv_file.written

\* the searches made, by label
Labels == {searches[i].label : i \in 1..Len(searches)}

LastSearch(label) ==
  searches[Max({i \in 1..Len(searches) : searches[i].label = label})]

RECURSIVE SumOfLast(_)
SumOfLast(labels) ==
  IF labels = {} THEN 0
  ELSE LET l == CHOOSE x \in labels : TRUE
       IN  Len(LastSearch(l).returned) + SumOfLast(labels \ {l})

RECURSIVE SumOfAll(_)
SumOfAll(done) ==
  IF done = <<>> THEN 0 ELSE Len(Head(done).returned) + SumOfAll(Tail(done))

\* C5 as claimed: the total_usages printed is the sum, over every search that
\* was performed, of the number of records the search returned
C5_TotalCountsEverySearch ==
  total_usages >= 0 => total_usages = SumOfAll(searches)

\* C5 amended: the total_usages printed is the sum, over the distinct labels,
\* of the number of records returned by the last search made for the label;
\* the result set holds under each label the records of that last search, and
\* a search returns its records in page arrival order then in-page order
C5_TotalCountsLastSearchPerLabel ==
  /\ total_usages >= 0 =>
       /\ total_usages = SumOfLast(Labels)
       /\ {all_results[i].key : i \in 1..Len(all_results)} = Labels
       /\ \A i \in 1..Len(all_results) :
            Built(all_results[i].value) = LastSearch(all_results[i].key).returned
  /\ (pc = "return" /\ responses[Len(responses)].ok) => results = RecordsOf(responses)
  /\ pc \in {"search", "flatten"} =>
       \A l \in Labels : ValueOf(all_results, l) = LastSearch(l).returned

\* the same specifier twice: two records at the first search, one at the
\* second, and a total of one
C5_Witness ==
  /\ pc = "exit"
  /\ total_usages = 1
  /\ Len(searches) = 2
  /\ searches[1].label = searches[2].label
  /\ Len(searches[1].returned) = 2
  /\ Len(searches[2].returned) = 1
  /\ Len(all_results) = 1

\* C6 as claimed: the loop over the objects of a fetched page raises nothing
\* and appends one record per object, a field whose source is missing or null
\* being the empty string (the namespace: that of the request)
C6_NormalizationNeverFails ==
  /\ pc # "crashed"
  /\ \A i \in 1..Len(results) :
       /\ DOMAIN results[i] = RecordKeys
       /\ \A k \in RecordKeys : results[i][k] \notin {PyNone, Absent}
  /\ pc \in {"loop", "return"} =>
       Len(results) = ObjectCount(SelectSeq(responses, LAMBDA r : r.ok))

\* C8: with no well-formed specifier, or with API_KEY, API_SECRET or
\* ENDOR_NAMESPACE missing, the run never gets past its checks, ends with code 1
\* and has issued no request; when the token request fails or yields no token
\* the run ends with code 1 and has issued no query request
NoValidSpecifier ==
  \A k \in 1..Len(SplitAll(args, Comma)) : Malformed(Strip(SplitAll(args, Comma)[k]))

CredentialsMissing ==
  \E v \in {environ.api_key, environ.api_secret, environ.initial_namespace} :
    v \in {PyNone, ""}

C8_PreconditionsBeforeNetwork ==
  /\ NoValidSpecifier =>
       /\ pc \in {"main", "parse", "exit"}
       /\ auth_requests = 0 /\ query_requests = 0
       /\ pc = "exit" => exit_code = 1
  /\ CredentialsMissing =>
       /\ pc \in {"main", "parse", "env", "exit"}
       /\ auth_requests = 0 /\ query_requests = 0
       /\ pc = "exit" => exit_code = 1
  /\ (auth_requests > 0 /\ ~Truthy(token)) =>
       /\ pc = "exit"
       /\ exit_code = 1
       /\ auth_requests = 1
       /\ query_requests = 0
  /\ query_requests > 0 => Truthy(token) /\ auth_requests = 1

\* a well-formed specifier with API_SECRET set to the empty string: exit 1
\* before any request
C8_Witness ==
  /\ pc = "exit"
  /\ exit_code = 1
  /\ dependencies # <<>>
  /\ environ.api_secret = ""
  /\ auth_requests = 0
  /\ query_requests = 0

\* C9 as claimed: every record of the result set keeps the seven fields it was
\* built with, and the JSON writer writes the records the searches returned
C9_RecordsNeverModified ==
  /\ \A i \in 1..Len(all_results) :
       \A j \in 1..Len(all_results[i].value) :
         DOMAIN all_results[i].value[j] = RecordKeys
  /\ json_file.written =>
       \A i \in 1..Len(json_file.content) :
         json_file.content[i].value = LastSearch(json_file.content[i].key).returned

====
